---- MODULE Spec2Model ----
(***************************************************************************)
(* Model of metalshader.c: the frame loop of main (lines 529-659), the     *)
(* input router check_keyboard (191-233) with find_display_port (81-103),  *)
(* and binary loading load_spv (47-51).                                    *)
(*                                                                         *)
(* The loop is cut at its calls into the device, the display subsystem and *)
(* the clock: pc names the line the loop is about to execute.  The device  *)
(* runs beside the loop (GpuExecute); the loop meets it at the fence.      *)
(*                                                                         *)
(* Time is counted in ticks of half a second: a struct timespec holds      *)
(* tv_sec and a tv_nsec of 0 or 500000000, so that the float arithmetic of *)
(* line 607 is exact up to its two roundings, which are modelled.  Float   *)
(* values (t, iTime) are written in units of 1/2 s; scaling by a power of  *)
(* two does not change float rounding.  Time passes where the loop blocks: *)
(* in vkWaitForFences (642) and in sleep (552).                            *)
(***************************************************************************)
EXTENDS Integers, Sequences, FiniteSets, TLC

\* ---------------------------------------------------------------- bounds
MaxShaders == 2      \* shader_count ranges over 1..MaxShaders
MaxQueue == 2        \* key events buffered on the input device at one time
MaxTicks == 3        \* clock ticks explored on top of the long waits
MaxLongWaits == 1    \* fence waits of FloatExactLimit ticks explored
W == 2               \* mode->hdisplay
H == 2               \* mode->vdisplay
RowPad == 4          \* padding bytes a row stride may add to 4*W
MaxPort == 1         \* virtio ports 0..MaxPort are scanned (the code: 0..9)
MaxArgLen == 3       \* characters of argv[1]

\* ------------------------------------------------------ program constants
VK_NULL_HANDLE == 0
EV_SYN == 0
EV_KEY == 1
KEY_ESC == 1
KEY_Q == 16
KEY_A == 30
KEY_F == 33
KEY_LEFT == 105
KEY_RIGHT == 106
NsecPerSec == 1000000000
FloatBits == 24
SleepSeconds == 1
BytesPerPixel == 4
GarbageByte == 170

TicksPerSec == 2
TickNs == NsecPerSec \div TicksPerSec
NoFrame == -1
NoPort == -1
Slash == -1          \* the character '/'; the other characters are 0, 1, ...
ExampleName == 0     \* the name "example", one character long here
NotFound == -1       \* find_shader_by_name finds no descriptor
NoStreak == [kind |-> "none", count |-> 0, from |-> 0]
NoToggle == [present |-> {}, port |-> NoPort, channel |-> "none"]

VARIABLES
  shaders, shader_arg, shader_name,                 \* 42 (the names), 237, 240
  shader_count, current_shader, reload_requested,   \* lines 43-45
  kbd_fd, queue, port_path,                         \* 264, the evdev buffer, 82
  pipeline, vm, fm, objs,                           \* 530-531, the device's live objects
  clock, start, now, t, frames,                     \* CLOCK_MONOTONIC, 534-536, 607
  ubo, cmd, submitted, fence, rtMem,                \* 440, 491, the queue, 512, 339
  rowPitch, gbmPtr, gbmStride, gbmMem, scanout,     \* 523-525, 646-647, the bo
  pc, exit_code,
  prevSet, loadedAt, prevT, streak, polled,         \* history
  lastToggle

scanVars == <<shaders, shader_arg, shader_name, shader_count>>
regVars == <<scanVars, current_shader, reload_requested>>
inputVars == <<kbd_fd, queue, port_path>>
pipeVars == <<pipeline, vm, fm, objs>>
timeVars == <<clock, start, now, t, frames>>
gpuVars == <<ubo, cmd, submitted, fence, rtMem>>
gbmVars == <<rowPitch, gbmPtr, gbmStride, gbmMem, scanout>>
ctlVars == <<pc, exit_code>>
oldHist == <<prevSet, loadedAt, prevT, streak, lastToggle>>
histVars == <<oldHist, polled>>
vars == <<regVars, inputVars, pipeVars, timeVars, gpuVars, gbmVars, ctlVars, histVars>>

\* ------------------------------------------------------------ arithmetic
\* C's % on ints truncates toward zero.
CRem(a, b) == IF a >= 0 THEN a % b ELSE -((-a) % b)

Abs(v) == IF v >= 0 THEN v ELSE -v

RECURSIVE UlpOf(_, _)
\* The spacing of floats at magnitude a: the least power of two u with a/u < 2^24.
UlpOf(a, u) == IF a \div u < 2^FloatBits THEN u ELSE UlpOf(a, 2 * u)

\* Conversion of an integer to float, round to nearest, ties to even.
RoundToFloat(v) ==
  LET a == Abs(v)
      u == UlpOf(a, 1)
      q == a \div u
      r == a % u
      m == IF 2 * r > u \/ (2 * r = u /\ q % 2 = 1) THEN q + 1 ELSE q
  IN  IF v >= 0 THEN m * u ELSE -(m * u)

\* The largest tick count up to which a float holds every integer.
FloatExactLimit == 2^FloatBits

\* clock_gettime(CLOCK_MONOTONIC, &ts)
ClockGettime(c) == [tv_sec |-> c \div TicksPerSec, tv_nsec |-> (c % TicksPerSec) * TickNs]

\* Line 607: (now.tv_sec - start.tv_sec) + (now.tv_nsec - start.tv_nsec) / 1e9f.
\* The long difference of seconds is converted to float, the nanosecond
\* difference divided by 1e9f is a multiple of 1/2 here, the sum is rounded.
ElapsedFloat(s, n) ==
  LET secs == RoundToFloat(TicksPerSec * (n.tv_sec - s.tv_sec))
      frac == (n.tv_nsec - s.tv_nsec) \div TickNs
  IN  RoundToFloat(secs + frac)

\* ------------------------------------------------------------- registry
\* A string is a sequence of characters; a descriptor's name is one character
\* that is not '/' (a file name holds no '/').
NameChars == 0..(MaxShaders - 1)
Chars == NameChars \cup {Slash}

RECURSIVE LastSlash(_, _)
\* strrchr(path, '/'): the position of the last '/', 0 for NULL.
LastSlash(path, i) ==
  IF i = 0 THEN 0
  ELSE IF path[i] = Slash THEN i
  ELSE LastSlash(path, i - 1)

\* Lines 75-78.
get_basename(path) ==
  LET last_slash == LastSlash(path, Len(path))
  IN  IF last_slash # 0 THEN SubSeq(path, last_slash + 1, Len(path)) ELSE path

RECURSIVE FindFrom(_, _, _)
\* Lines 164-167: the for loop from index i.
FindFrom(reg, name, i) ==
  IF i >= Len(reg) THEN NotFound
  ELSE IF reg[i + 1] = name THEN i
  ELSE FindFrom(reg, name, i + 1)

\* A lookup that returns the last descriptor of the name, not the first.
find_shader_by_name_Last(reg, name) ==
  IF \E i \in 1..Len(reg) : reg[i] = name
  THEN (CHOOSE i \in 1..Len(reg) : reg[i] = name /\ \A j \in (i + 1)..Len(reg) : reg[j] # name) - 1
  ELSE NotFound

\* Lines 163-168.
find_shader_by_name(reg, name) == FindFrom(reg, name, 0)

\* A previous step that leaves out "+ shader_count" before the remainder.
StepPrev_NoWrap(i, n) == CRem(i - 1, n)

\* Line 200.
StepPrev(i, n) == CRem(i - 1 + n, n)

\* A next step without the remainder.
StepNext_NoWrap(i, n) == i + 1

\* Line 205.
StepNext(i, n) == CRem(i + 1, n)

\* ----------------------------------------------------------- input events
Event(ty, code, value) == [type |-> ty, code |-> code, value |-> value]
Events ==
  { Event(EV_KEY, KEY_LEFT, 1), Event(EV_KEY, KEY_RIGHT, 1), Event(EV_KEY, KEY_F, 1),
    Event(EV_KEY, KEY_ESC, 1), Event(EV_KEY, KEY_Q, 1), Event(EV_KEY, KEY_A, 1),
    Event(EV_KEY, KEY_RIGHT, 0), Event(EV_KEY, KEY_LEFT, 2), Event(EV_SYN, 0, 0) }

\* A filter that looks at the type only: releases and repeats pass.
IsKeyPress_AnyValue(ev) == ev.type = EV_KEY

\* Line 196.
IsKeyPress(ev) == ev.type = EV_KEY /\ ev.value = 1

\* ------------------------------------------------------- device objects
LiveIds == { o.h : o \in objs }
IsLive(h) == h \in LiveIds
ObjOf(h) == CHOOSE o \in objs : o.h = h
Stale(h) == h # VK_NULL_HANDLE /\ ~IsLive(h)

\* The handle a vkCreate* call returns: the lowest one not in use.
FreshHandle(used) == CHOOSE h \in 1..(Cardinality(used) + 1) :
                       h \notin used /\ \A g \in 1..(h - 1) : g \in used

\* Lines 556-559: the object vkCreateShaderModule makes of a program's binary.
ShaderModule(h, kind, prog) ==
  [h |-> h, kind |-> kind, prog |-> prog, stages |-> {},
   info |-> [pCode |-> <<prog, kind>>]]

\* A create-info whose blend state is taken over from the set destroyed before.
PipelineCreateInfo_Inherit(v, f) ==
  [stageCount |-> 2, pStages |-> <<[stage |-> "VERTEX", module |-> v],
                                   [stage |-> "FRAGMENT", module |-> f]>>,
   vertexBindings |-> 0, vertexAttributes |-> 0,
   topology |-> "TRIANGLE_LIST",
   viewportCount |-> 1, viewport |-> <<0, 0, W, H>>,
   scissorCount |-> 1, scissor |-> <<0, 0, W, H>>,
   attachmentCount |-> 1, blendEnable |-> (prevSet # {}), colorWriteMask |-> 15]

\* Lines 563-597: the VkGraphicsPipelineCreateInfo.  Fields the initialisers
\* leave out are zero.
PipelineCreateInfo(v, f) ==
  [stageCount |-> 2, pStages |-> <<[stage |-> "VERTEX", module |-> v],
                                   [stage |-> "FRAGMENT", module |-> f]>>,
   vertexBindings |-> 0, vertexAttributes |-> 0,
   topology |-> "TRIANGLE_LIST",
   viewportCount |-> 1, viewport |-> <<0, 0, W, H>>,
   scissorCount |-> 1, scissor |-> <<0, 0, W, H>>,
   attachmentCount |-> 1, blendEnable |-> FALSE, colorWriteMask |-> 15]

\* Lines 563-598: the object vkCreateGraphicsPipelines makes.
GraphicsPipeline(h, prog, v, f) ==
  [h |-> h, kind |-> "pipeline", prog |-> prog, stages |-> {v, f},
   info |-> PipelineCreateInfo(v, f)]

\* The three handles the loop holds name live objects built from one program.
SetLive ==
  /\ IsLive(pipeline) /\ IsLive(vm) /\ IsLive(fm)
  /\ ObjOf(pipeline).kind = "pipeline" /\ ObjOf(vm).kind = "vert" /\ ObjOf(fm).kind = "frag"
  /\ ObjOf(vm).prog = ObjOf(pipeline).prog /\ ObjOf(fm).prog = ObjOf(pipeline).prog
  /\ ObjOf(pipeline).stages = {vm, fm}
SetAbsent == pipeline = VK_NULL_HANDLE /\ vm = VK_NULL_HANDLE /\ fm = VK_NULL_HANDLE

\* ------------------------------------------------------------- surfaces
Strides == { BytesPerPixel * W, BytesPerPixel * W + RowPad }
Bytes(n) == 0..(n - 1)

\* What the draw of program prog at time iTime leaves in byte c of pixel (x, y).
ShaderOutput(prog, iTime, x, y, c) == (7 * prog + iTime + 3 * x + 5 * y + c) % 256

\* The render target after the draw: the pixels are written, the padding is not.
Render(mem, pitch, prog, iTime) ==
  [ o \in DOMAIN mem |->
      IF o % pitch < BytesPerPixel * W
      THEN ShaderOutput(prog, iTime, (o % pitch) \div BytesPerPixel, o \div pitch,
                        (o % pitch) % BytesPerPixel)
      ELSE mem[o] ]

\* A row copy that takes the source rows to be packed (stride 4*W).
CopyRows_PackedSrc(dst, dstStride, src, srcStride) ==
  [ o \in DOMAIN dst |->
      IF o % dstStride < BytesPerPixel * W /\ o \div dstStride < H
      THEN src[(o \div dstStride) * (BytesPerPixel * W) + (o % dstStride)]
      ELSE dst[o] ]

\* Lines 649-651: for each row y, memcpy(dst + y*dstStride, src + y*srcStride, W*4).
CopyRows(dst, dstStride, src, srcStride) ==
  [ o \in DOMAIN dst |->
      IF o % dstStride < BytesPerPixel * W /\ o \div dstStride < H
      THEN src[(o \div dstStride) * srcStride + (o % dstStride)]
      ELSE dst[o] ]

\* gbm_bo_unmap: the W x H pixels of the mapping are transferred to the bo.
Visible(mem, stride) ==
  [ p \in Bytes(BytesPerPixel * W * H) |->
      mem[(p \div (BytesPerPixel * W)) * stride + (p % (BytesPerPixel * W))] ]

\* ------------------------------------------------------------------ Init
Init ==
  /\ shader_count \in 1..MaxShaders
  /\ shaders = [i \in 1..shader_count |-> <<i - 1>>]
  /\ shader_name \in {shaders[i] : i \in 1..shader_count}
  /\ shader_arg = shader_name
  /\ current_shader = find_shader_by_name(shaders, shader_name)
  /\ reload_requested = 0
  /\ kbd_fd \in {-1, 3}
  /\ queue = <<>>
  /\ port_path = NoPort
  /\ pipeline = VK_NULL_HANDLE /\ vm = VK_NULL_HANDLE /\ fm = VK_NULL_HANDLE
  /\ objs = {}
  /\ clock = 0
  /\ start = ClockGettime(0)
  /\ now = ClockGettime(0)
  /\ t = 0
  /\ frames = 0
  /\ ubo = [iTime |-> 0]
  /\ cmd = VK_NULL_HANDLE
  /\ submitted = <<>>
  /\ fence = "unsignaled"
  /\ rowPitch \in Strides
  /\ rtMem = [o \in Bytes(rowPitch * H) |-> 0]
  /\ gbmPtr = FALSE
  /\ gbmStride = 0
  /\ gbmMem = << >>
  /\ scanout = [p \in Bytes(BytesPerPixel * W * H) |-> 0]
  /\ pc = "loop_top"
  /\ exit_code = -1
  /\ prevSet = {}
  /\ loadedAt = ClockGettime(0)
  /\ prevT = NoFrame
  /\ streak = NoStreak
  /\ lastToggle = NoToggle
  /\ polled = FALSE

\* ----------------------------------------------------------- the clock
\* The time a blocking call may take: one tick, or long enough for the
\* elapsed time to leave the range in which a float holds every tick.
WaitTicks == {1, FloatExactLimit}
CanAdvance(d) ==
  IF d = FloatExactLimit
  THEN clock \div FloatExactLimit < MaxLongWaits
  ELSE (clock % FloatExactLimit) + d <= MaxTicks

Running == pc \notin {"exited", "crashed"}

\* ------------------------------------------------- pipeline rebuild, 540-604
\* A skip that looks at the pipeline handle only, not at reload_requested.
SkipReload_IgnoresFlag ==
  /\ pc = "loop_top"
  /\ pipeline # VK_NULL_HANDLE
  /\ pc' = "clock"
  /\ polled' = FALSE
  /\ UNCHANGED <<regVars, inputVars, pipeVars, timeVars, gpuVars, gbmVars, exit_code, oldHist>>

\* Line 540, condition false: the block is skipped.
SkipReload ==
  /\ pc = "loop_top"
  /\ ~(reload_requested # 0 \/ pipeline = VK_NULL_HANDLE)
  /\ pc' = "clock"
  /\ polled' = FALSE
  /\ UNCHANGED <<regVars, inputVars, pipeVars, timeVars, gpuVars, gbmVars, exit_code, oldHist>>

\* A clean-up that destroys nothing.
CleanUp_Leak ==
  /\ pc = "loop_top"
  /\ reload_requested # 0 \/ pipeline = VK_NULL_HANDLE
  /\ ~(Stale(pipeline) \/ Stale(vm) \/ Stale(fm))
  /\ prevSet' = {pipeline, vm, fm} \cap LiveIds
  /\ pc' = "load"
  /\ polled' = FALSE
  /\ UNCHANGED <<regVars, inputVars, pipeVars, timeVars, gpuVars, gbmVars, exit_code,
                 loadedAt, prevT, streak, lastToggle>>

\* Lines 540-544 when every non-null handle names a live object: the three
\* vkDestroy* calls.  The handles keep their values.
CleanUp ==
  /\ pc = "loop_top"
  /\ reload_requested # 0 \/ pipeline = VK_NULL_HANDLE
  /\ ~(Stale(pipeline) \/ Stale(vm) \/ Stale(fm))
  /\ objs' = { o \in objs : o.h \notin {pipeline, vm, fm} }
  /\ prevSet' = {pipeline, vm, fm} \cap LiveIds
  /\ pc' = "load"
  /\ polled' = FALSE
  /\ UNCHANGED <<regVars, inputVars, pipeline, vm, fm, timeVars, gpuVars, gbmVars, exit_code,
                 loadedAt, prevT, streak, lastToggle>>

\* Lines 540-544 when a handle names an object already destroyed: vkDestroy*
\* on it is undefined; the call returns, or the process dies in the driver.
CleanUpStale ==
  /\ pc = "loop_top"
  /\ reload_requested # 0 \/ pipeline = VK_NULL_HANDLE
  /\ Stale(pipeline) \/ Stale(vm) \/ Stale(fm)
  /\ prevSet' = {pipeline, vm, fm} \cap LiveIds
  /\ objs' = { o \in objs : o.h \notin {pipeline, vm, fm} }
  /\ \/ pc' = "load"
     \/ pc' = "crashed"
  /\ polled' = FALSE
  /\ UNCHANGED <<regVars, inputVars, pipeline, vm, fm, timeVars, gpuVars, gbmVars, exit_code,
                 loadedAt, prevT, streak, lastToggle>>

\* A failed load that clears the reload request.
LoadFail_ClearsFlag ==
  /\ pc = "load"
  /\ \E vc \in BOOLEAN, fc \in BOOLEAN : ~vc \/ ~fc
  /\ reload_requested' = 0
  /\ pc' = "sleep"
  /\ UNCHANGED <<scanVars, current_shader, inputVars, pipeVars, timeVars, gpuVars, gbmVars,
                 exit_code, histVars>>

\* Lines 548-551: load_spv returns NULL for the vertex or the fragment binary.
LoadFail ==
  /\ pc = "load"
  /\ \E vc \in BOOLEAN, fc \in BOOLEAN : ~vc \/ ~fc
  /\ pc' = "sleep"
  /\ UNCHANGED <<regVars, inputVars, pipeVars, timeVars, gpuVars, gbmVars, exit_code, histVars>>

\* Lines 552-553: sleep(1); continue.
Sleep ==
  /\ pc = "sleep"
  /\ CanAdvance(SleepSeconds * TicksPerSec)
  /\ clock' = clock + SleepSeconds * TicksPerSec
  /\ pc' = "loop_top"
  /\ UNCHANGED <<regVars, inputVars, pipeVars, start, now, t, frames, gpuVars, gbmVars,
                 exit_code, histVars>>

\* A rebuild that leaves out the clock_gettime of line 602.
RebuildOk_KeepEpoch ==
  /\ pc = "load"
  /\ LET v == FreshHandle(LiveIds)
         f == FreshHandle(LiveIds \cup {v})
         p == FreshHandle(LiveIds \cup {v, f})
     IN  /\ vm' = v
         /\ fm' = f
         /\ pipeline' = p
         /\ objs' = objs \cup { ShaderModule(v, "vert", current_shader),
                                ShaderModule(f, "frag", current_shader),
                                GraphicsPipeline(p, current_shader, v, f) }
  /\ reload_requested' = 0
  /\ frames' = 0
  /\ loadedAt' = ClockGettime(clock)
  /\ prevT' = NoFrame
  /\ pc' = "clock"
  /\ UNCHANGED <<scanVars, current_shader, inputVars, clock, start, now, t, gpuVars, gbmVars,
                 exit_code, prevSet, streak, polled, lastToggle>>

\* Lines 548-603, both binaries loaded and every VK_CHECK passed.
RebuildOk ==
  /\ pc = "load"
  /\ LET v == FreshHandle(LiveIds)
         f == FreshHandle(LiveIds \cup {v})
         p == FreshHandle(LiveIds \cup {v, f})
     IN  /\ vm' = v
         /\ fm' = f
         /\ pipeline' = p
         /\ objs' = objs \cup { ShaderModule(v, "vert", current_shader),
                                ShaderModule(f, "frag", current_shader),
                                GraphicsPipeline(p, current_shader, v, f) }
  /\ reload_requested' = 0
  /\ start' = ClockGettime(clock)
  /\ frames' = 0
  /\ loadedAt' = ClockGettime(clock)
  /\ prevT' = NoFrame
  /\ pc' = "clock"
  /\ UNCHANGED <<scanVars, current_shader, inputVars, clock, now, t, gpuVars, gbmVars,
                 exit_code, prevSet, streak, polled, lastToggle>>

\* Lines 556-598, a VK_CHECK fails: exit(1).  The stage objects created before
\* the failing call stay with the dying process.
RebuildFatal ==
  /\ pc = "load"
  /\ pc' = "exited"
  /\ exit_code' = 1
  /\ UNCHANGED <<regVars, inputVars, pipeVars, timeVars, gpuVars, gbmVars, histVars>>

\* Lines 606-607.
ReadClock ==
  /\ pc = "clock"
  /\ now' = ClockGettime(clock)
  /\ t' = ElapsedFloat(start, ClockGettime(clock))
  /\ pc' = "kbd"
  /\ UNCHANGED <<regVars, inputVars, pipeVars, clock, start, frames, gpuVars, gbmVars,
                 exit_code, histVars>>

\* ------------------------------------------------ input router, 191-233
\* The input device buffers one more event.  The loop reads the device only
\* inside check_keyboard, so an event that arrives while the loop is elsewhere
\* is the same to it as one that arrives while check_keyboard drains.
KeyArrives ==
  /\ pc = "kbd"
  /\ kbd_fd >= 0
  /\ Len(queue) < MaxQueue
  /\ \E ev \in Events : queue' = Append(queue, ev)
  /\ UNCHANGED <<regVars, kbd_fd, port_path, pipeVars, timeVars, gpuVars, gbmVars, ctlVars,
                 histVars>>

\* Line 192: no keyboard was opened; check_keyboard returns at once.  polled
\* records that check_keyboard was called and returned in the pass under way.
KbdNoDevice ==
  /\ pc = "kbd"
  /\ kbd_fd < 0
  /\ pc' = "ubo"
  /\ polled' = TRUE
  /\ UNCHANGED <<regVars, inputVars, pipeVars, timeVars, gpuVars, gbmVars, exit_code, oldHist>>

\* A poll that reads with "if" for "while": it returns after any event.
KbdReturn_Early ==
  /\ pc = "kbd" /\ kbd_fd >= 0
  /\ pc' = "ubo"
  /\ polled' = TRUE
  /\ UNCHANGED <<regVars, inputVars, pipeVars, timeVars, gpuVars, gbmVars, exit_code, oldHist>>

\* Line 195: read() finds no event; check_keyboard returns.
KbdReturn ==
  /\ pc = "kbd" /\ kbd_fd >= 0
  /\ queue = << >>
  /\ pc' = "ubo"
  /\ polled' = TRUE
  /\ UNCHANGED <<regVars, inputVars, pipeVars, timeVars, gpuVars, gbmVars, exit_code, oldHist>>

\* Line 196: not a key press.
KbdSkip ==
  /\ pc = "kbd" /\ kbd_fd >= 0
  /\ queue # << >>
  /\ ~IsKeyPress(Head(queue))
  /\ queue' = Tail(queue)
  /\ UNCHANGED <<regVars, kbd_fd, port_path, pipeVars, timeVars, gpuVars, gbmVars, ctlVars,
                 histVars>>

\* Lines 199-203.
KbdLeftBody ==
  /\ pc = "kbd" /\ kbd_fd >= 0
  /\ queue # << >>
  /\ IsKeyPress(Head(queue)) /\ Head(queue).code = KEY_LEFT
  /\ queue' = Tail(queue)
  /\ current_shader' = StepPrev(current_shader, shader_count)
  /\ reload_requested' = 1
  /\ UNCHANGED <<scanVars, kbd_fd, port_path, pipeVars, timeVars, gpuVars, gbmVars, ctlVars,
                 prevSet, loadedAt, prevT, polled,
                 lastToggle>>
KbdLeft == KbdLeftBody /\ UNCHANGED streak

\* A next handler that forgets to request the reload.
KbdRightBody_NoFlag ==
  /\ pc = "kbd" /\ kbd_fd >= 0
  /\ queue # << >>
  /\ IsKeyPress(Head(queue)) /\ Head(queue).code = KEY_RIGHT
  /\ queue' = Tail(queue)
  /\ current_shader' = StepNext(current_shader, shader_count)
  /\ UNCHANGED <<scanVars, reload_requested, kbd_fd, port_path, pipeVars, timeVars, gpuVars,
                 gbmVars, ctlVars, prevSet, loadedAt, prevT, polled,
                 lastToggle>>

\* Lines 204-208.
KbdRightBody ==
  /\ pc = "kbd" /\ kbd_fd >= 0
  /\ queue # << >>
  /\ IsKeyPress(Head(queue)) /\ Head(queue).code = KEY_RIGHT
  /\ queue' = Tail(queue)
  /\ current_shader' = StepNext(current_shader, shader_count)
  /\ reload_requested' = 1
  /\ UNCHANGED <<scanVars, kbd_fd, port_path, pipeVars, timeVars, gpuVars, gbmVars, ctlVars,
                 prevSet, loadedAt, prevT, polled,
                 lastToggle>>
KbdRight == KbdRightBody /\ UNCHANGED streak

\* A lookup that scans on every call.
FindDisplayPort_NoCache(cached, present) ==
  IF present = {} THEN NoPort
  ELSE CHOOSE i \in present : \A j \in present : i <= j

\* Lines 81-103: the cached path, or the first port whose name matches, or NULL.
\* present is the set of ports whose name file matches at the time of the call.
FindDisplayPort(cached, present) ==
  IF cached # NoPort THEN cached
  ELSE IF present = {} THEN NoPort
  ELSE CHOOSE i \in present : \A j \in present : i <= j

\* Lines 212-224: what became of the signal to the host.
ToggleOutcome(port, canOpen) ==
  IF port = NoPort THEN "not found"
  ELSE IF canOpen THEN "written"
  ELSE "not openable"

\* A toggle that gives up the process when the host cannot be signalled.
KbdToggleBody_Fatal(present, canOpen) ==
  /\ pc = "kbd" /\ kbd_fd >= 0
  /\ queue # << >>
  /\ IsKeyPress(Head(queue)) /\ Head(queue).code = KEY_F
  /\ queue' = Tail(queue)
  /\ port_path' = FindDisplayPort(port_path, present)
  /\ IF ToggleOutcome(port_path', canOpen) = "written"
     THEN UNCHANGED ctlVars
     ELSE pc' = "exited" /\ exit_code' = 1
  /\ UNCHANGED <<regVars, kbd_fd, pipeVars, timeVars, gpuVars, gbmVars, prevSet, loadedAt,
                 prevT, streak, polled>>

\* Lines 209-225, with the ports present that match and the port openable or
\* not: the write to the port, when it opens, leaves the loop's state alone.
KbdToggleBody(present, canOpen) ==
  /\ pc = "kbd" /\ kbd_fd >= 0
  /\ queue # << >>
  /\ IsKeyPress(Head(queue)) /\ Head(queue).code = KEY_F
  /\ queue' = Tail(queue)
  /\ port_path' = FindDisplayPort(port_path, present)
  /\ UNCHANGED <<regVars, kbd_fd, pipeVars, timeVars, gpuVars, gbmVars, ctlVars, prevSet,
                 loadedAt, prevT, streak, polled>>

KbdToggle ==
  \E present \in SUBSET (0..MaxPort), canOpen \in BOOLEAN :
    KbdToggleBody(present, canOpen) /\ UNCHANGED lastToggle

\* The toggle, with the call of find_display_port and its outcome recorded.
KbdToggleLogged ==
  \E present \in SUBSET (0..MaxPort), canOpen \in BOOLEAN :
    /\ KbdToggleBody(present, canOpen)
    /\ lastToggle' = [present |-> present, port |-> port_path',
                      channel |-> ToggleOutcome(port_path', canOpen)]

\* An exit handler that leaves the switch without ending the process.
KbdExit_Break ==
  /\ pc = "kbd" /\ kbd_fd >= 0
  /\ queue # << >>
  /\ IsKeyPress(Head(queue)) /\ Head(queue).code \in {KEY_ESC, KEY_Q}
  /\ queue' = Tail(queue)
  /\ UNCHANGED <<regVars, kbd_fd, port_path, pipeVars, timeVars, gpuVars, gbmVars, ctlVars,
                 histVars>>

\* Lines 226-230: exit(0).
KbdExit ==
  /\ pc = "kbd" /\ kbd_fd >= 0
  /\ queue # << >>
  /\ IsKeyPress(Head(queue)) /\ Head(queue).code \in {KEY_ESC, KEY_Q}
  /\ queue' = Tail(queue)
  /\ pc' = "exited"
  /\ exit_code' = 0
  /\ UNCHANGED <<regVars, kbd_fd, port_path, pipeVars, timeVars, gpuVars, gbmVars, histVars>>

\* A default case that withdraws a pending reload request.
KbdOther_ClearsFlag ==
  /\ pc = "kbd" /\ kbd_fd >= 0
  /\ queue # << >>
  /\ IsKeyPress(Head(queue))
  /\ Head(queue).code \notin {KEY_LEFT, KEY_RIGHT, KEY_F, KEY_ESC, KEY_Q}
  /\ queue' = Tail(queue)
  /\ reload_requested' = 0
  /\ UNCHANGED <<scanVars, current_shader, kbd_fd, port_path, pipeVars, timeVars, gpuVars,
                 gbmVars, ctlVars, histVars>>

\* Lines 198-231: a key press no case of the switch names.
KbdOther ==
  /\ pc = "kbd" /\ kbd_fd >= 0
  /\ queue # << >>
  /\ IsKeyPress(Head(queue))
  /\ Head(queue).code \notin {KEY_LEFT, KEY_RIGHT, KEY_F, KEY_ESC, KEY_Q}
  /\ queue' = Tail(queue)
  /\ UNCHANGED <<regVars, kbd_fd, port_path, pipeVars, timeVars, gpuVars, gbmVars, ctlVars,
                 histVars>>

\* -------------------------------------------------------- frame, 612-658
\* Lines 612-635: the uniform block is written and the command buffer recorded.
RecordFrame ==
  /\ pc = "ubo"
  /\ ubo' = [iTime |-> t]
  /\ cmd' = pipeline
  /\ pc' = "submit"
  /\ UNCHANGED <<regVars, inputVars, pipeVars, timeVars, submitted, fence, rtMem, gbmVars,
                 exit_code, histVars>>

\* A submit that is followed by the copy at once, with no fence wait.
QueueSubmit_NoWait ==
  /\ pc = "submit"
  /\ submitted' = Append(submitted, [pipeline |-> cmd])
  /\ pc' = "map"
  /\ UNCHANGED <<regVars, inputVars, pipeVars, timeVars, ubo, cmd, fence, rtMem, gbmVars,
                 exit_code, histVars>>

\* Lines 638-641, VK_SUCCESS.
QueueSubmit ==
  /\ pc = "submit"
  /\ submitted' = Append(submitted, [pipeline |-> cmd])
  /\ pc' = "wait"
  /\ UNCHANGED <<regVars, inputVars, pipeVars, timeVars, ubo, cmd, fence, rtMem, gbmVars,
                 exit_code, histVars>>

\* The device runs the oldest submission: the draw of the bound pipeline's
\* program writes the render target, then the fence is signalled.
GpuExecute ==
  /\ submitted # << >>
  /\ rtMem' = IF IsLive(Head(submitted).pipeline)
              THEN Render(rtMem, rowPitch, ObjOf(Head(submitted).pipeline).prog, ubo.iTime)
              ELSE [o \in DOMAIN rtMem |-> GarbageByte]
  /\ submitted' = Tail(submitted)
  /\ fence' = "signaled"
  /\ UNCHANGED <<regVars, inputVars, pipeVars, timeVars, ubo, cmd, gbmVars, ctlVars, histVars>>

\* A fence wait with a timeout of zero: it returns whether or not the fence
\* is signalled.
WaitForFences_NoBlock ==
  /\ pc = "wait"
  /\ \E d \in WaitTicks : CanAdvance(d) /\ clock' = clock + d
  /\ pc' = "reset"
  /\ UNCHANGED <<regVars, inputVars, pipeVars, start, now, t, frames, gpuVars, gbmVars,
                 exit_code, histVars>>

\* Line 642: vkWaitForFences returns once the fence is signalled; the wait
\* took d ticks.
WaitForFences ==
  /\ pc = "wait"
  /\ fence = "signaled"
  /\ \E d \in WaitTicks : CanAdvance(d) /\ clock' = clock + d
  /\ pc' = "reset"
  /\ UNCHANGED <<regVars, inputVars, pipeVars, start, now, t, frames, gpuVars, gbmVars,
                 exit_code, histVars>>

\* Lines 638-642, a VK_CHECK fails (device lost): exit(1).
SubmitFatal ==
  /\ pc \in {"submit", "wait"}
  /\ pc' = "exited"
  /\ exit_code' = 1
  /\ UNCHANGED <<regVars, inputVars, pipeVars, timeVars, gpuVars, gbmVars, histVars>>

\* Line 643.
ResetFences ==
  /\ pc = "reset"
  /\ fence' = "unsignaled"
  /\ pc' = "map"
  /\ UNCHANGED <<regVars, inputVars, pipeVars, timeVars, ubo, cmd, submitted, rtMem, gbmVars,
                 exit_code, histVars>>

\* Lines 646-648, gbm_bo_map succeeds: a mapping of the bo with its own stride.
\* The mapping is for writing; what it holds before the copy is not the bo's.
MapOk ==
  /\ pc = "map"
  /\ \E s \in Strides :
       /\ gbmStride' = s
       /\ gbmMem' = [o \in Bytes(s * H) |-> GarbageByte]
  /\ gbmPtr' = TRUE
  /\ pc' = "copy"
  /\ UNCHANGED <<regVars, inputVars, pipeVars, timeVars, gpuVars, rowPitch, scanout, exit_code,
                 histVars>>

\* A failed map treated like a failed VK_CHECK: exit(1).
MapFail_Fatal ==
  /\ pc = "map"
  /\ gbmPtr' = FALSE
  /\ pc' = "exited"
  /\ exit_code' = 1
  /\ UNCHANGED <<regVars, inputVars, pipeVars, timeVars, gpuVars, rowPitch, gbmStride, gbmMem,
                 scanout, histVars>>

\* Lines 646-648, gbm_bo_map returns NULL.
MapFail ==
  /\ pc = "map"
  /\ gbmPtr' = FALSE
  /\ pc' = "dirty"
  /\ UNCHANGED <<regVars, inputVars, pipeVars, timeVars, gpuVars, rowPitch, gbmStride, gbmMem,
                 scanout, exit_code, histVars>>

\* Lines 649-651.
CopyToGbm ==
  /\ pc = "copy"
  /\ gbmMem' = CopyRows(gbmMem, gbmStride, rtMem, rowPitch)
  /\ pc' = "unmap"
  /\ UNCHANGED <<regVars, inputVars, pipeVars, timeVars, gpuVars, rowPitch, gbmPtr, gbmStride,
                 scanout, exit_code, histVars>>

\* Line 652.
Unmap ==
  /\ pc = "unmap"
  /\ scanout' = Visible(gbmMem, gbmStride)
  /\ gbmMem' = << >>
  /\ pc' = "dirty"
  /\ UNCHANGED <<regVars, inputVars, pipeVars, timeVars, gpuVars, rowPitch, gbmPtr, gbmStride,
                 exit_code, histVars>>

\* Lines 654-658; gbmPtr and gbmStride, declared in the loop body (646), end here.
DirtyFB ==
  /\ pc = "dirty"
  /\ frames' = frames + 1
  /\ prevT' = t
  /\ gbmPtr' = FALSE
  /\ gbmStride' = 0
  /\ pc' = "loop_top"
  /\ UNCHANGED <<regVars, inputVars, pipeVars, clock, start, now, t, gpuVars, rowPitch, gbmMem,
                 scanout, exit_code, prevSet, loadedAt, streak, lastToggle,
                 polled>>

Next ==
  \/ SkipReload \/ CleanUp \/ CleanUpStale \/ LoadFail \/ Sleep \/ RebuildOk \/ RebuildFatal
  \/ ReadClock
  \/ KeyArrives \/ KbdNoDevice \/ KbdReturn \/ KbdSkip \/ KbdLeft \/ KbdRight
  \/ KbdToggle \/ KbdExit \/ KbdOther
  \/ RecordFrame \/ QueueSubmit \/ GpuExecute \/ WaitForFences \/ SubmitFatal \/ ResetFences
  \/ MapOk \/ MapFail \/ CopyToGbm \/ Unmap \/ DirtyFB

Spec == Init /\ [][Next]_vars

\* ------------------------------------------------------ startup, 235-536
\* The process at the first line of main: nothing scanned, nothing opened,
\* nothing created.
InitStart ==
  /\ shaders = << >>
  /\ shader_arg = << >>
  /\ shader_name = << >>
  /\ shader_count = 0
  /\ current_shader = 0
  /\ reload_requested = 0
  /\ kbd_fd = -1
  /\ queue = << >>
  /\ port_path = NoPort
  /\ pipeline = VK_NULL_HANDLE /\ vm = VK_NULL_HANDLE /\ fm = VK_NULL_HANDLE
  /\ objs = {}
  /\ clock = 0
  /\ start = ClockGettime(0)
  /\ now = ClockGettime(0)
  /\ t = 0
  /\ frames = 0
  /\ ubo = [iTime |-> 0]
  /\ cmd = VK_NULL_HANDLE
  /\ submitted = << >>
  /\ fence = "uncreated"
  /\ rowPitch = 0
  /\ rtMem = << >>
  /\ gbmPtr = FALSE
  /\ gbmStride = 0
  /\ gbmMem = << >>
  /\ scanout = << >>
  /\ pc = "main"
  /\ exit_code = -1
  /\ prevSet = {}
  /\ loadedAt = ClockGettime(0)
  /\ prevT = NoFrame
  /\ streak = NoStreak
  /\ lastToggle = NoToggle
  /\ polled = FALSE

\* The strings argv[1] may be.
Args == UNION { [1..n -> Chars] : n \in 0..MaxArgLen }

\* The registries a scan of the three directories may build: every name may
\* be found in more than one directory.
Registries == UNION { [1..n -> { <<c>> : c \in NameChars }] : n \in 0..MaxShaders }

\* No keyboard, display buffer, device object or mapping exists yet.
Uninitialised ==
  /\ kbd_fd = -1
  /\ fence = "uncreated"
  /\ rtMem = << >>
  /\ scanout = << >>

loopVars == <<current_shader, reload_requested, inputVars, pipeVars, timeVars, gpuVars, gbmVars,
              histVars>>

\* Lines 237-240; argc < 2 selects "example".
ParseArgs ==
  /\ pc = "main"
  /\ \E given \in BOOLEAN, arg \in Args :
       /\ shader_arg' = IF given THEN arg ELSE <<ExampleName>>
       /\ given \/ arg = << >>
  /\ shader_name' = get_basename(shader_arg')
  /\ pc' = "scan"
  /\ UNCHANGED <<shaders, shader_count, loopVars, exit_code>>

\* Line 243, scan_all_shaders (105-161): the registry is what the directories hold.
ScanAllShaders ==
  /\ pc = "scan"
  /\ \E reg \in Registries :
       /\ shaders' = reg
       /\ shader_count' = Len(reg)
  /\ pc' = "scanned"
  /\ UNCHANGED <<shader_arg, shader_name, loopVars, exit_code>>

\* Lines 244-249: return 1.
ExitNoShaders ==
  /\ pc = "scanned"
  /\ shader_count = 0
  /\ pc' = "exited"
  /\ exit_code' = 1
  /\ UNCHANGED <<scanVars, loopVars>>

\* Line 252.
FindShader ==
  /\ pc = "scanned"
  /\ shader_count # 0
  /\ current_shader' = find_shader_by_name(shaders, shader_name)
  /\ pc' = "found"
  /\ UNCHANGED <<scanVars, reload_requested, inputVars, pipeVars, timeVars, gpuVars, gbmVars,
                 histVars, exit_code>>

\* Lines 253-259: return 1.
ExitNotFound ==
  /\ pc = "found"
  /\ current_shader < 0
  /\ pc' = "exited"
  /\ exit_code' = 1
  /\ UNCHANGED <<scanVars, loopVars>>

\* Lines 261-536, every VK_CHECK passed: the keyboard is opened or not, the bo
\* and the render target exist and are mapped, the fence is unsignalled.
Setup ==
  /\ pc = "found"
  /\ current_shader >= 0
  /\ kbd_fd' \in {-1, 3}
  /\ rowPitch' \in Strides
  /\ rtMem' = [o \in Bytes(rowPitch' * H) |-> 0]
  /\ scanout' = [p \in Bytes(BytesPerPixel * W * H) |-> 0]
  /\ fence' = "unsignaled"
  /\ pc' = "loop_top"
  /\ UNCHANGED <<regVars, queue, port_path, pipeVars, timeVars, ubo, cmd, submitted, gbmPtr,
                 gbmStride, gbmMem, histVars, exit_code>>

\* Lines 296-520, a VK_CHECK fails: exit(1), after the bo was created (285).
SetupFatal ==
  /\ pc = "found"
  /\ current_shader >= 0
  /\ kbd_fd' \in {-1, 3}
  /\ scanout' = [p \in Bytes(BytesPerPixel * W * H) |-> 0]
  /\ pc' = "exited"
  /\ exit_code' = 1
  /\ UNCHANGED <<regVars, queue, port_path, pipeVars, timeVars, gpuVars, rowPitch, gbmPtr,
                 gbmStride, gbmMem, histVars>>

NextStart ==
  \/ ParseArgs \/ ScanAllShaders \/ ExitNoShaders \/ FindShader \/ ExitNotFound
  \/ Setup \/ SetupFatal

SpecStart == InitStart /\ [][NextStart]_vars

\* ------------------------------------------ the drain loop under a key stream
\* The state at the first call of check_keyboard, after the first rebuild
\* succeeded, for a registry of up to MaxStepShaders programs.
MaxStepShaders == 4

InitAtPoll ==
  /\ shader_count \in 1..MaxStepShaders
  /\ shaders = [i \in 1..shader_count |-> <<i - 1>>]
  /\ shader_name \in {shaders[i] : i \in 1..shader_count}
  /\ shader_arg = shader_name
  /\ current_shader = find_shader_by_name(shaders, shader_name)
  /\ reload_requested = 0
  /\ kbd_fd = 3
  /\ queue = << >>
  /\ port_path = NoPort
  /\ vm = 1 /\ fm = 2 /\ pipeline = 3
  /\ objs = { ShaderModule(1, "vert", current_shader),
              ShaderModule(2, "frag", current_shader),
              GraphicsPipeline(3, current_shader, 1, 2) }
  /\ clock = 0
  /\ start = ClockGettime(0)
  /\ now = ClockGettime(0)
  /\ t = 0
  /\ frames = 0
  /\ ubo = [iTime |-> 0]
  /\ cmd = VK_NULL_HANDLE
  /\ submitted = << >>
  /\ fence = "unsignaled"
  /\ rowPitch = BytesPerPixel * W
  /\ rtMem = [o \in Bytes(rowPitch * H) |-> 0]
  /\ gbmPtr = FALSE
  /\ gbmStride = 0
  /\ gbmMem = << >>
  /\ scanout = [p \in Bytes(BytesPerPixel * W * H) |-> 0]
  /\ pc = "kbd"
  /\ exit_code = -1
  /\ prevSet = {}
  /\ loadedAt = ClockGettime(0)
  /\ prevT = NoFrame
  /\ streak = NoStreak
  /\ lastToggle = NoToggle
  /\ polled = FALSE

\* The run of equal stepping events handled last: its kind, its length (a run
\* starts again after shader_count events) and the index it started from.
Extend(kind) ==
  IF streak.kind = kind /\ streak.count < shader_count
  THEN [streak EXCEPT !.count = @ + 1]
  ELSE [kind |-> kind, count |-> 1, from |-> current_shader]

NextStep ==
  \/ KeyArrives \/ KbdSkip \/ KbdOther \/ KbdToggle
  \/ KbdLeftBody /\ streak' = Extend("prev")
  \/ KbdRightBody /\ streak' = Extend("next")

SpecStep == InitAtPoll /\ [][NextStep]_vars

\* ----------------------------------------------------- one poll, 191-233
\* One call of check_keyboard from the state InitAtPoll, up to its return or
\* exit.  Here streak holds the index the poll started from and the number of
\* next events less the number of previous events it has handled, which is
\* kept within MaxNet; lastToggle holds the last call of find_display_port.
MaxNet == 3

Net(d) ==
  IF streak.kind = "net"
  THEN [streak EXCEPT !.count = @ + d]
  ELSE [kind |-> "net", count |-> d, from |-> current_shader]

NextDrain ==
  \/ KeyArrives \/ KbdSkip \/ KbdOther \/ KbdToggleLogged \/ KbdReturn \/ KbdExit
  \/ KbdLeftBody /\ streak' = Net(-1) /\ Abs(streak'.count) <= MaxNet
  \/ KbdRightBody /\ streak' = Net(1) /\ Abs(streak'.count) <= MaxNet

SpecDrain == InitAtPoll /\ [][NextDrain]_vars

\* ====================================================================
\* Claims
\* ====================================================================
PressOf(code) == Event(EV_KEY, code, 1)

\* The loop takes an event off the device (a read() that returns an event).
Consumes == pc = "kbd" /\ queue # << >> /\ queue' = Tail(queue)

\* C1: when a rebuild is requested while a pipeline is Active and a binary of
\* the selected program fails to load, the set that was Active (vertex stage,
\* fragment stage, pipeline) is not destroyed and the loop still holds it.
C1_PreviousSetSurvivesFailedLoad ==
  (pc = "sleep" /\ prevSet # {}) =>
     /\ prevSet \subseteq LiveIds
     /\ SetLive

\* C2: N consecutive next events, or N consecutive previous events, bring the
\* active index back to the index the run started from (N = shader_count).
C2_SteppingIsCyclic ==
  streak.count = shader_count => current_shader = streak.from

C2_Witness ==
  /\ shader_count = 3
  /\ streak.kind = "prev"
  /\ streak.count = 3
  /\ streak.from = 0

\* C3: a next press moves index i to (i + 1) mod N, a previous press to
\* (i - 1 + N) mod N, and each sets the reload flag; with two programs a and b
\* (indices 0 and 1): next from a gives b, next from b gives a, previous from a
\* gives b.
C3_NextPrevStep ==
  [][ Consumes /\ IsKeyPress(Head(queue)) =>
        /\ Head(queue).code = KEY_RIGHT =>
             /\ current_shader' = (current_shader + 1) % shader_count
             /\ reload_requested' = 1
             /\ (shader_count = 2 => current_shader' = 1 - current_shader)
        /\ Head(queue).code = KEY_LEFT =>
             /\ current_shader' = (current_shader - 1 + shader_count) % shader_count
             /\ reload_requested' = 1
             /\ (shader_count = 2 /\ current_shader = 0 => current_shader' = 1) ]_vars

\* A next or previous press was handled with program a drawn and b selected.
C3_Witness ==
  /\ shader_count = 2
  /\ reload_requested = 1
  /\ current_shader = 1
  /\ SetLive /\ ObjOf(pipeline).prog = 0
  /\ pc = "ubo"

\* C4: an ESC or Q press at the head of the device's buffer ends the process
\* when it is read; check_keyboard returns only from an empty buffer, so a
\* waiting exit press is reached by the poll that finds it; and once the
\* process has exited on a key nothing more happens: no submission, no copy
\* to the scanout buffer, no further event taken off the device.
C4_ExitIsImmediate ==
  [][ /\ (Consumes /\ IsKeyPress(Head(queue)) /\ Head(queue).code \in {KEY_ESC, KEY_Q})
         => (pc' = "exited" /\ exit_code' = 0)
      /\ (pc = "kbd" /\ kbd_fd >= 0 /\ pc' = "ubo") => queue = << >>
      /\ (pc = "exited" /\ exit_code = 0)
         => (submitted = << >> /\ UNCHANGED vars) ]_vars

C4_Witness ==
  /\ pc = "exited" /\ exit_code = 0
  /\ queue # << >>
  /\ frames > 0

\* C5: submit, fence wait, fence reset, scanout copy, mark dirty, in this
\* order: while a submission is pending the command buffer is not recorded
\* again and the render target's memory is not read for the copy, the fence is
\* reset before the copy, and at most one submission is in flight.
C5_OneFrameInFlight ==
  /\ Len(submitted) <= 1
  /\ pc \in {"ubo", "submit"} => submitted = << >>
  /\ pc = "reset" => (submitted = << >> /\ fence = "signaled")
  /\ pc \in {"map", "copy", "unmap", "dirty"} => (submitted = << >> /\ fence = "unsignaled")

C5_Witness ==
  /\ pc = "dirty" /\ gbmPtr
  /\ frames = 1

\* C6: an object of the pipeline resource set is destroyed only when no
\* submission that binds it (the pipeline, or a stage the pipeline was built
\* from) is still pending on the device.
References(sub, o) ==
  \/ o.h = sub.pipeline
  \/ IsLive(sub.pipeline) /\ o.h \in ObjOf(sub.pipeline).stages

C6_DestroyAfterCompletion ==
  [][ \A o \in objs \ objs' :
        \A i \in 1..Len(submitted) : ~References(submitted[i], o) ]_vars

\* A set that frames were drawn with has been destroyed.
C6_Witness ==
  /\ pc = "load"
  /\ prevSet # {}
  /\ objs = {}

\* Pixel (x, y), byte c, at row stride s.
At(x, y, c, s) == y * s + BytesPerPixel * x + c

\* C7: after the row copy every pixel (x, y), 0 <= x < W, 0 <= y < H, of the
\* scanout mapping equals the render target's pixel, whatever the two row
\* strides; the bytes of a destination row past 4*W keep their value; and the
\* bo holds these pixels after the unmap.
C7_RowCopy ==
  /\ pc = "unmap" =>
       /\ \A x \in 0..(W - 1), y \in 0..(H - 1), c \in 0..(BytesPerPixel - 1) :
            gbmMem[At(x, y, c, gbmStride)] = rtMem[At(x, y, c, rowPitch)]
       /\ \A y \in 0..(H - 1), k \in (BytesPerPixel * W)..(gbmStride - 1) :
            gbmMem[y * gbmStride + k] = GarbageByte
  /\ (pc = "dirty" /\ gbmPtr) =>
       \A x \in 0..(W - 1), y \in 0..(H - 1), c \in 0..(BytesPerPixel - 1) :
         scanout[At(x, y, c, BytesPerPixel * W)] = rtMem[At(x, y, c, rowPitch)]

C7_Witness ==
  /\ pc = "unmap"
  /\ gbmStride > rowPitch
  /\ frames = 1
  /\ \E o \in DOMAIN rtMem : rtMem[o] # 0

\* C8: when gbm_bo_map fails, the frame goes on to the dirty call without the
\* scanout buffer or a mapping being touched and without an unmap, and from
\* there to the next iteration with the frame counter one higher and the
\* pipeline, the active index and the reload flag as they were; the process
\* does not end.
C8_MapFailureDropsFrame ==
  [][ /\ (pc = "map" /\ pc' # "map" /\ ~gbmPtr') =>
           /\ pc' = "dirty"
           /\ UNCHANGED <<scanout, gbmMem, frames, pipeVars, regVars>>
      /\ (pc = "dirty" /\ ~gbmPtr /\ pc' # "dirty") =>
           /\ pc' = "loop_top"
           /\ frames' = frames + 1
           /\ UNCHANGED <<scanout, gbmMem, pipeVars, regVars, exit_code>> ]_vars

\* A frame was drawn and dropped: the render target holds it, the bo does not.
C8_Witness ==
  /\ pc = "loop_top"
  /\ frames = 1
  /\ \E o \in DOMAIN rtMem : rtMem[o] # 0
  /\ \A p \in DOMAIN scanout : scanout[p] = 0

\* The clock reading as a count of ticks.
TicksOf(ts) == ts.tv_sec * TicksPerSec + ts.tv_nsec \div TickNs

\* The loop has read the clock for the frame it is on.
InFrame == pc \in {"kbd", "ubo", "submit", "wait", "reset", "map", "copy", "unmap", "dirty"}

\* C9 as stated: the epoch is the instant of the last completed rebuild, the
\* first frame after it reports 0, and the value strictly increases from
\* frame to frame.
C9_StrictlyIncreasing ==
  InFrame =>
    /\ start = loadedAt
    /\ frames = 0 => t = 0
    /\ prevT # NoFrame => t > prevT

\* C9, amended: the epoch is the instant of the last completed rebuild, the
\* first frame after it reports 0, the value never decreases from frame to
\* frame, and it increases strictly while the elapsed time is within the range
\* in which the float holds every tick.
C9_NeverDecreasing ==
  InFrame =>
    /\ start = loadedAt
    /\ frames = 0 => t = 0
    /\ prevT # NoFrame => t >= prevT
    /\ (prevT # NoFrame /\ TicksOf(now) - TicksOf(loadedAt) <= FloatExactLimit) => t > prevT

\* Two frames past the float's exact range report the same elapsed time,
\* after an epoch that a rebuild set later than the start of the process.
C9_Witness ==
  /\ InFrame
  /\ prevT # NoFrame
  /\ t = prevT
  /\ TicksOf(loadedAt) > 0

\* C10: outside a rebuild the three handles the loop holds are all live
\* objects built from one program, or all absent.
C10_AllOrNothing ==
  (Running /\ pc # "load") => (SetLive \/ SetAbsent)

\* b is path with everything up to its last '/' taken off.
IsBaseOf(b, path) ==
  \E k \in 0..Len(path) :
    /\ b = SubSeq(path, k + 1, Len(path))
    /\ \A i \in 1..Len(b) : b[i] # Slash
    /\ k = 0 \/ path[k] = Slash

NoMatch == \A b \in Args : IsBaseOf(b, shader_arg) => \A i \in 1..Len(shaders) : shaders[i] # b

\* C11: once the arguments are read and the directories scanned, an empty
\* registry, or a requested base name no descriptor has, ends the process with
\* exit code 1 while nothing is initialised; and the loop is entered only with
\* the active index at the first descriptor whose name is the base name.
C11_StartupExit ==
  [][ /\ (pc \in {"scanned", "found"} /\ (shader_count = 0 \/ NoMatch)) =>
           (pc' \in {"found", "exited"} /\ (pc' = "exited" => exit_code' = 1) /\ Uninitialised')
      /\ (pc # "loop_top" /\ pc' = "loop_top") =>
           /\ shader_count' = Len(shaders') /\ shader_count' >= 1
           /\ current_shader' \in 0..(shader_count' - 1)
           /\ IsBaseOf(shaders'[current_shader' + 1], shader_arg')
           /\ \A j \in 1..current_shader' : ~IsBaseOf(shaders'[j], shader_arg') ]_vars

\* The loop starts at the first of two descriptors of one name, named by a path.
C11_Witness ==
  /\ pc = "loop_top"
  /\ shader_count = 2
  /\ shaders[1] = shaders[2]
  /\ current_shader = 0
  /\ Len(shader_arg) = 3 /\ shader_arg[2] = Slash

\* C12: the loop is left (the process ends) only when an ESC or Q press is
\* read; a failed VK_CHECK, which is none of the listed events, aside.
C12_OnlyExitKeyEnds ==
  [][ (Running /\ ~Running' /\ exit_code' # 1) =>
        /\ Consumes /\ IsKeyPress(Head(queue))
        /\ Head(queue).code \in {KEY_ESC, KEY_Q} ]_vars

\* C13: every pipeline object is built with the same parameters: no vertex
\* input, triangle list, one viewport and scissor of the full extent, one
\* colour attachment, no blending; only the two stage modules, built from the
\* binaries of the pipeline's program, differ.
C13_SameParameters ==
  \A o \in objs : o.kind = "pipeline" =>
    /\ [k \in DOMAIN o.info \ {"pStages"} |-> o.info[k]]
         = [stageCount |-> 2, vertexBindings |-> 0, vertexAttributes |-> 0,
            topology |-> "TRIANGLE_LIST",
            viewportCount |-> 1, viewport |-> <<0, 0, W, H>>,
            scissorCount |-> 1, scissor |-> <<0, 0, W, H>>,
            attachmentCount |-> 1, blendEnable |-> FALSE, colorWriteMask |-> 15]
    /\ \A i \in 1..2 :
         /\ IsLive(o.info.pStages[i].module)
         /\ ObjOf(o.info.pStages[i].module).prog = o.prog
    /\ ObjOf(o.info.pStages[1].module).kind = "vert"
    /\ ObjOf(o.info.pStages[2].module).kind = "frag"

\* Program 0 is Active after the process started with program 1 and from
\* there went through program 1's set being destroyed.
C13_Witness ==
  /\ shader_name = <<1>>
  /\ SetLive /\ ObjOf(pipeline).prog = 0
  /\ prevSet # {}
  /\ pc = "submit"

\* C14: no destroyed handle is passed to a destroy call (the handles the
\* loop holds when it is about to run lines 542-544) or bound in a command
\* buffer; so no object is destroyed twice.
C14_NoDestroyedHandleUsed ==
  /\ (pc = "loop_top" /\ (reload_requested # 0 \/ pipeline = VK_NULL_HANDLE)) =>
       ~(Stale(pipeline) \/ Stale(vm) \/ Stale(fm))
  /\ pc \in {"ubo", "submit"} => ~Stale(pipeline)

\* C15: every pass of the loop that ends (by the continue of line 553 or at
\* the end of the body) has called check_keyboard.
C15_PolledEveryPass ==
  [][ (pc # "loop_top" /\ pc' = "loop_top") => polled ]_vars

\* C16: the step on which a load fails, and the sleep after it, submit
\* nothing, copy nothing and leave the reload flag, the epoch and the frame
\* counter alone; and the pass that follows a failed load attempts the load
\* again, for the index then selected.
C16_FailedLoadRetries ==
  [][ /\ (pc \in {"load", "sleep"} /\ pc' \in {"sleep", "loop_top"}) =>
           UNCHANGED <<submitted, scanout, reload_requested, start, frames, current_shader>>
      /\ (pc = "loop_top" /\ (Stale(pipeline) \/ pipeline = VK_NULL_HANDLE)) =>
           pc' = "load" ]_vars

\* C17: the pipeline bound in the command buffer at a submission, and in a
\* submission pending on the device, is a live pipeline object; and when the
\* reload flag is clear and the loop's pipeline is live, the set was built
\* from the binaries of the program at the active index.
C17_BoundPipelineIsCurrent ==
  /\ pc = "submit" => (cmd # VK_NULL_HANDLE /\ IsLive(cmd) /\ ObjOf(cmd).kind = "pipeline")
  /\ \A i \in 1..Len(submitted) : IsLive(submitted[i].pipeline)
  /\ (reload_requested = 0 /\ IsLive(pipeline)) =>
       (SetLive /\ ObjOf(pipeline).prog = current_shader)

\* A frame of program 1 is submitted in a process that started with program 0.
C17_Witness ==
  /\ pc = "submit"
  /\ shader_name = <<0>>
  /\ reload_requested = 0
  /\ ObjOf(pipeline).prog = 1

FramePcs == {"ubo", "submit", "wait", "reset", "map", "copy", "unmap", "dirty"}

\* C18: with the reload flag set by a poll, the frame under way is drawn with
\* the set loaded before and the flag and the index are left alone; at the
\* iteration boundary the loop goes to the rebuild, never to a frame; and the
\* flag is cleared only by the step that completes a rebuild, which builds the
\* set of the active index.
C18_ReloadServed ==
  [][ /\ (pc \in FramePcs /\ reload_requested = 1) =>
           /\ SetLive /\ ObjOf(pipeline).prog = ObjOf(vm).prog
           /\ UNCHANGED <<pipeline, vm, fm, objs, reload_requested, current_shader>>
           /\ pc = "submit" => cmd = pipeline
           /\ pc' \in FramePcs \cup {"loop_top", "exited"}
      /\ (pc = "loop_top" /\ reload_requested = 1 /\ pc' # pc) => pc' \notin {"clock"} \cup FramePcs
      /\ (reload_requested = 1 /\ reload_requested' = 0) =>
           /\ pc = "load" /\ pc' = "clock"
           /\ current_shader' = current_shader
           /\ SetLive' /\ (ObjOf(pipeline).prog)' = current_shader
           /\ objs = {} ]_vars

\* A rebuild served a request: the set of the active index replaced another.
C18_Witness ==
  /\ pc = "clock"
  /\ reload_requested = 0
  /\ prevSet # {}
  /\ frames = 0
  /\ SetLive /\ ObjOf(pipeline).prog = current_shader
  /\ shader_name # <<current_shader>>

\* C19: the registry holds at least one descriptor and the active index is
\* one of its indices.
C19_IndexInBounds ==
  /\ shader_count >= 1
  /\ shader_count = Len(shaders)
  /\ 0 <= current_shader /\ current_shader < shader_count

\* The index went from the last descriptor to the first, with more to read.
C19_Witness ==
  /\ shader_count = 2
  /\ shader_name = <<1>>
  /\ current_shader = 0
  /\ pc = "kbd" /\ queue # << >>

KindCount(kind) == Cardinality({ o \in objs : o.kind = kind })

\* C20: the device holds at most one pipeline, one vertex stage and one
\* fragment stage at a time, and at a submission it holds exactly the set the
\* loop's three handles name.
C20_OneLiveSet ==
  /\ KindCount("pipeline") <= 1 /\ KindCount("vert") <= 1 /\ KindCount("frag") <= 1
  /\ pc = "submit" => (SetLive /\ objs = {ObjOf(pipeline), ObjOf(vm), ObjOf(fm)}
                       /\ Cardinality(objs) = 3)

\* The first frame of a set that replaced another is submitted.
C20_Witness ==
  /\ pc = "submit"
  /\ prevSet # {}
  /\ frames = 0
  /\ Cardinality(objs) = 3

\* C21: check_keyboard takes the events off the device oldest first, returns
\* only when none is left, and at its return the active index is the index it
\* started from plus the nexts less the previouses it handled, modulo N.
C21_PollDrainsInOrder ==
  [][ /\ (pc = "kbd" /\ Len(queue') < Len(queue)) => queue' = Tail(queue)
      /\ (pc = "kbd" /\ pc' = "ubo") =>
           /\ queue = << >> /\ queue' = << >>
           /\ streak.kind = "net" =>
                current_shader' =
                  (streak.from + streak.count + MaxNet * shader_count) % shader_count ]_vars

\* A poll returned after three previous events on a registry of two.
C21_Witness ==
  /\ pc = "ubo"
  /\ shader_count = 2
  /\ streak.kind = "net" /\ streak.count = -3 /\ streak.from = 0
  /\ current_shader = 1

\* C22: an event that is not of type EV_KEY with value 1, or whose code is
\* none of LEFT, RIGHT, F, ESC, Q, is taken off the device and nothing else
\* changes; and with no keyboard opened the poll returns with nothing changed.
C22_OnlyFiveKeysAct ==
  [][ /\ (Consumes /\ ( \/ Head(queue).type # EV_KEY
                        \/ Head(queue).value # 1
                        \/ Head(queue).code \notin {KEY_LEFT, KEY_RIGHT, KEY_F, KEY_ESC, KEY_Q} )) =>
           UNCHANGED <<regVars, kbd_fd, port_path, pipeVars, timeVars, gpuVars, gbmVars, ctlVars>>
      /\ (pc = "kbd" /\ kbd_fd < 0) =>
           /\ pc' = "ubo"
           /\ UNCHANGED <<regVars, inputVars, pipeVars, timeVars, gpuVars, gbmVars, exit_code>> ]_vars

\* A poll without a keyboard has returned, in the second frame.
C22_Witness ==
  /\ pc = "ubo"
  /\ kbd_fd < 0
  /\ polled
  /\ frames = 1

\* A LEFT or RIGHT press is being taken off the device by check_keyboard.
StepHandled ==
  /\ Consumes
  /\ Head(queue).type = EV_KEY /\ Head(queue).value = 1
  /\ Head(queue).code \in {KEY_LEFT, KEY_RIGHT}

\* C23: the reload flag is set, and the active index changed, only by
\* check_keyboard handling a LEFT or RIGHT press; the flag is cleared only by
\* main completing a rebuild; main does not change the index and
\* check_keyboard does not clear the flag.
C23_SingleWriter ==
  [][ /\ (reload_requested = 0 /\ reload_requested' # 0) => StepHandled
      /\ current_shader' # current_shader => StepHandled
      /\ (reload_requested # 0 /\ reload_requested' = 0) =>
           (pc = "load" /\ pc' = "clock" /\ SetLive')
      /\ pc # "kbd" => current_shader' = current_shader
      /\ pc = "kbd" => (reload_requested # 0 => reload_requested' # 0) ]_vars

\* check_keyboard runs with the flag clear after main cleared a flag that
\* check_keyboard had set together with a new index.
C23_Witness ==
  /\ pc = "kbd"
  /\ reload_requested = 0
  /\ prevSet # {}
  /\ shader_name # <<current_shader>>
  /\ SetLive /\ ObjOf(pipeline).prog = current_shader

\* An F press is being taken off the device by check_keyboard.
ToggleHandled ==
  /\ Consumes
  /\ Head(queue).type = EV_KEY /\ Head(queue).value = 1
  /\ Head(queue).code = KEY_F

\* C24: an F press, whether the port is found and written, found and not
\* openable, or not found, changes neither the index nor the reload flag nor
\* anything else of the loop, does not end the process, and leaves
\* check_keyboard reading the events behind it.
C24_ToggleIsBestEffort ==
  [][ ToggleHandled =>
        /\ lastToggle'.channel \in {"written", "not openable", "not found"}
        /\ UNCHANGED <<regVars, kbd_fd, pipeVars, timeVars, gpuVars, gbmVars>>
        /\ pc' = "kbd" /\ exit_code' = exit_code
        /\ queue' = Tail(queue) ]_vars

\* A poll has returned after a toggle whose port could not be opened.
C24_Witness ==
  /\ pc = "ubo"
  /\ lastToggle.channel = "not openable"
  /\ queue = << >>

Lowest(S) == CHOOSE i \in S : \A j \in S : i <= j

\* C25: a call of find_display_port made while no path is cached returns the
\* lowest matching port, which it caches, or "not found" when none matches
\* and then caches nothing; a call made with a path cached returns that path
\* whatever ports match by then; and a cached path never changes.
C25_LookupIsMemoized ==
  [][ /\ ToggleHandled =>
           /\ port_path = NoPort =>
                /\ lastToggle'.port =
                     IF lastToggle'.present = {} THEN NoPort ELSE Lowest(lastToggle'.present)
                /\ port_path' = lastToggle'.port
           /\ port_path # NoPort => lastToggle'.port = port_path
      /\ port_path # NoPort => port_path' = port_path ]_vars

\* A call returned the cached port 1 when only port 0 matched.
C25_Witness ==
  /\ port_path = 1
  /\ lastToggle.port = 1
  /\ lastToggle.present = {0}

====
